---------------------------- MODULE Spec2Model ----------------------------
(*************************************************************************)
(* Model of the GibRAM glue scripts of cameronsjo/dev-toolkit:           *)
(*   skills/gibram/index-docs.py  OllamaEmbedder.embed and the CLI main  *)
(*   skills/gibram/mcp-server.py  _indexer, query_docs, index_directory  *)
(*                                                                       *)
(* Three specifications share the module, one per entry point:           *)
(*   SpecEmbed   one call of OllamaEmbedder.embed                        *)
(*   Spec        one run of the CLI main                                 *)
(*   SpecFacade  one tool call of the MCP server                         *)
(*                                                                       *)
(* A text is [src, len]: the first len characters of the character       *)
(* stream src. Slicing t[:n] keeps the stream and cuts the length.       *)
(* A vector is [dim, zero, text]: its length, whether it is the          *)
(* zero-filled placeholder, and the text the provider computed it from.  *)
(*************************************************************************)
EXTENDS Integers, Sequences, FiniteSets, TLC

\* ------------------------------------------------------------------ bounds
MaxTexts == 2
MaxFiles == 4
MaxBatch == 3
MaxEntities == 2

\* ------------------------------------------------------------------- state
\* One call of OllamaEmbedder.embed
VARIABLES
    texts,      \* embed's argument
    model,      \* self.model
    truncated,  \* the local of line 57
    requests,   \* the input= of every embeddings.create call, in call order
    outcomes,   \* for each of those calls, "ok" or the error it raised
    result,     \* the list being returned
    k,          \* position of the fallback loop in truncated
    raised,     \* the exception embed raised, or NoError
    epc         \* "start", "batch", "fallback", "returned", "raised"

evars == <<texts, model, truncated, requests, outcomes, result, k, raised, epc>>

\* One run of the CLI main
VARIABLES
    dir_exists,           \* docs_dir.exists()
    dir_files,            \* the paths docs_dir.rglob("*.md") yields
    unreadable,           \* the paths whose read_text raises
    args,                 \* parsed command line: openai, openai_embed, batch_size, embedder_model
    environ,              \* OPENAI_API_KEY in the environment
    md_files,
    api_key,
    extractor,
    embedder,
    indexer,              \* whether GibRAMIndexer has been constructed
    total_entities,
    total_relationships,
    batch,
    i,
    calls,                \* the argument of every index_documents call, in order
    returns,              \* the stats every index_documents call returned, in order
    printed,              \* messages written, in order
    exit_code,            \* -1 while the process runs
    pc

minputs == <<dir_exists, dir_files, unreadable, args, environ>>
mbackend == <<api_key, extractor, embedder, indexer>>
mloop == <<total_entities, total_relationships, batch, i, calls, returns>>
mvars == <<minputs, md_files, mbackend, mloop, printed, exit_code, pc>>

\* One tool call of the MCP server
VARIABLES
    f_backend,     \* GIBRAM_BACKEND in the environment
    f_environ,     \* OPENAI_API_KEY in the environment
    f_tool,        \* the tool the host calls
    f_dir_exists,
    f_dir_files,
    f_unreadable,
    f_md_files,
    f_extractor,
    f_embedder,
    f_indexer,     \* whether GibRAMIndexer has been constructed
    docs,
    skipped,
    f_next,        \* position of the read loop in f_md_files
    f_calls,       \* the engine calls made, in order
    reply,         \* the lines the tool returns
    fpc

finputs == <<f_backend, f_environ, f_tool, f_dir_exists, f_dir_files, f_unreadable>>
fobjects == <<f_extractor, f_embedder, f_indexer>>
fvars == <<finputs, f_md_files, fobjects, docs, skipped, f_next, f_calls, reply, fpc>>

\* ------------------------------------------------- OllamaEmbedder (index-docs.py)
MAX_CHARS == 6000
ZERO_DIM == 768

\* Embedding models --embedder-model can name, with the vector length each returns.
EmbedderModels == {"nomic-embed-text", "text-embedding-3-small"}

\* nomic-embed-text returns 768 numbers, text-embedding-3-small 1536
ModelDim(m) == IF m = "nomic-embed-text" THEN 768 ELSE 1536

Sources == {"a", "b"}
Lengths == {0, 1, MAX_CHARS, MAX_CHARS + 1}
Texts == [src : Sources, len : Lengths]
NoText == [src |-> "", len |-> 0]
Errors == {"context_length", "connection"}
NoError == "none"

TextLists == UNION {[1..n -> Texts] : n \in 0..MaxTexts}

Min(a, b) == IF a < b THEN a ELSE b

\* t[:n]
Slice(t, n) == [src |-> t.src, len |-> Min(t.len, n)]

TruncateNone(t) == t

\* t[:self.MAX_CHARS] if t else t
Truncate(t) == IF t.len # 0 THEN Slice(t, MAX_CHARS) ELSE t

\* What the provider returns for one input text on success.
ProviderEmbedding(m, t) == [dim |-> ModelDim(m), zero |-> FALSE, text |-> t]

\* resp.data for a request that succeeded: one item per input, in input order.
ProviderData(m, input) == [n \in 1..Len(input) |-> ProviderEmbedding(m, input[n])]

\* [0.0] * 768
ZeroVector == [dim |-> ZERO_DIM, zero |-> TRUE, text |-> NoText]

SeqMap(Op(_), s) == [n \in 1..Len(s) |-> Op(s[n])]


EmbedInit ==
    /\ texts \in TextLists
    /\ model \in EmbedderModels
    /\ truncated = <<>>
    /\ requests = <<>>
    /\ outcomes = <<>>
    /\ result = <<>>
    /\ k = 0
    /\ raised = NoError
    /\ epc = "start"

\* line 57
EmbedTruncate ==
    /\ epc = "start"
    /\ truncated' = SeqMap(Truncate, texts)
    /\ epc' = "batch"
    /\ UNCHANGED <<texts, model, requests, outcomes, result, k, raised>>
    /\ UNCHANGED <<mvars, fvars>>

\* lines 59-60: the batch request succeeds
BatchSucceeds ==
    /\ epc = "batch"
    /\ requests' = Append(requests, truncated)
    /\ outcomes' = Append(outcomes, "ok")
    /\ result' = ProviderData(model, truncated)
    /\ epc' = "returned"
    /\ UNCHANGED <<texts, model, truncated, k, raised>>
    /\ UNCHANGED <<mvars, fvars>>

BatchFailsAlwaysFallback ==
    /\ epc = "batch"
    /\ \E e \in Errors :
        /\ requests' = Append(requests, truncated)
        /\ outcomes' = Append(outcomes, e)
        /\ epc' = "fallback"
        /\ k' = 1
        /\ result' = <<>>
        /\ UNCHANGED <<texts, model, truncated, raised>>
    /\ UNCHANGED <<mvars, fvars>>

\* lines 59, 61-65: the batch request raises e
BatchFails ==
    /\ epc = "batch"
    /\ \E e \in Errors :
        /\ requests' = Append(requests, truncated)
        /\ outcomes' = Append(outcomes, e)
        /\ IF Len(truncated) = 1
             THEN /\ epc' = "raised"
                  /\ raised' = e
                  /\ UNCHANGED <<result, k>>
             ELSE /\ epc' = "fallback"
                  /\ k' = 1
                  /\ result' = <<>>
                  /\ UNCHANGED raised
        /\ UNCHANGED <<texts, model, truncated>>
    /\ UNCHANGED <<mvars, fvars>>

Prepend(s, v) == <<v>> \o s

\* result.append(v)
ResultAppend(s, v) == Append(s, v)

\* lines 66-69: the single request for truncated[k] succeeds
SingleSucceeds ==
    /\ epc = "fallback"
    /\ k <= Len(truncated)
    /\ requests' = Append(requests, <<truncated[k]>>)
    /\ outcomes' = Append(outcomes, "ok")
    /\ result' = ResultAppend(result, ProviderData(model, <<truncated[k]>>)[1])
    /\ k' = k + 1
    /\ UNCHANGED <<texts, model, truncated, raised, epc>>
    /\ UNCHANGED <<mvars, fvars>>

SingleFailsRaises ==
    /\ epc = "fallback"
    /\ k <= Len(truncated)
    /\ \E e \in Errors :
        /\ requests' = Append(requests, <<truncated[k]>>)
        /\ outcomes' = Append(outcomes, e)
        /\ raised' = e
        /\ epc' = "raised"
        /\ UNCHANGED <<texts, model, truncated, result, k>>
    /\ UNCHANGED <<mvars, fvars>>

\* lines 66-68, 70-72: the single request for truncated[k] raises
SingleFails ==
    /\ epc = "fallback"
    /\ k <= Len(truncated)
    /\ \E e \in Errors :
        /\ requests' = Append(requests, <<truncated[k]>>)
        /\ outcomes' = Append(outcomes, e)
        /\ result' = ResultAppend(result, ZeroVector)
        /\ k' = k + 1
        /\ UNCHANGED <<texts, model, truncated, raised, epc>>
    /\ UNCHANGED <<mvars, fvars>>

\* line 73
FallbackReturn ==
    /\ epc = "fallback"
    /\ k > Len(truncated)
    /\ epc' = "returned"
    /\ UNCHANGED <<texts, model, truncated, requests, outcomes, result, k, raised>>
    /\ UNCHANGED <<mvars, fvars>>


\* ------------------------------------------------------- CLI main (index-docs.py)
Paths == 1..MaxFiles
BatchSizes == -1..MaxBatch
KeyValues == {"<unset>", "", "sk-key"}
None == "None"

\* stats objects index_documents can return (entities_extracted, relationships_extracted)
EngineStats ==
    { [entities_extracted |-> 3, relationships_extracted |-> 1],
      [entities_extracted |-> 2, relationships_extracted |-> 0],
      [entities_extracted |-> 1, relationships_extracted |-> 1] }

SetMin(S) == CHOOSE x \in S : \A y \in S : x <= y

RECURSIVE Sorted(_)
\* sorted(...) of a set of paths
Sorted(S) == IF S = {} THEN <<>> ELSE <<SetMin(S)>> \o Sorted(S \ {SetMin(S)})

\* os.environ.get(name): None when the variable is not set
EnvironGet(v) == IF v = "<unset>" THEN None ELSE v

\* os.environ.get(name, default)
EnvironGetDefault(v, default) == IF v = "<unset>" THEN default ELSE v

IsNotNone(v) == v # None

\* Python truthiness of an Optional[str]
Truthy(v) == v # None /\ v # ""

\* path.read_text(): the document read from path p
ReadText(p) == [from |-> p]


NoObject == [class |-> "none", api_key |-> None, model |-> None]

MainInit ==
    /\ dir_exists \in BOOLEAN
    /\ dir_files \in SUBSET Paths
    /\ (~dir_exists => dir_files = {})
    /\ unreadable \in SUBSET dir_files
    /\ args \in [openai : BOOLEAN, openai_embed : BOOLEAN,
                 batch_size : BatchSizes,
                 embedder_model : EmbedderModels]
    /\ environ \in KeyValues
    /\ md_files = <<>>
    /\ api_key = None
    /\ extractor = NoObject
    /\ embedder = NoObject
    /\ indexer = FALSE
    /\ total_entities = 0
    /\ total_relationships = 0
    /\ batch = <<>>
    /\ i = 0
    /\ calls = <<>>
    /\ returns = <<>>
    /\ printed = <<>>
    /\ exit_code = -1
    /\ pc = "check_dir"

\* sys.exit(code)
Exit(code) == exit_code' = code /\ pc' = "exit"

\* lines 95-98
CheckDir ==
    /\ pc = "check_dir"
    /\ IF ~dir_exists
         THEN /\ printed' = Append(printed, "Error: Directory not found")
              /\ Exit(1)
         ELSE /\ pc' = "list_files"
              /\ UNCHANGED <<printed, exit_code>>
    /\ UNCHANGED <<minputs, md_files, mbackend, mloop>>
    /\ UNCHANGED <<evars, fvars>>

\* lines 100-103
ListFiles ==
    /\ pc = "list_files"
    /\ md_files' = Sorted(dir_files)
    /\ IF md_files' = <<>>
         THEN /\ printed' = Append(printed, "No markdown files found")
              /\ Exit(0)
         ELSE /\ pc' = "credential"
              /\ UNCHANGED <<printed, exit_code>>
    /\ UNCHANGED <<minputs, mbackend, mloop>>
    /\ UNCHANGED <<evars, fvars>>

\* lines 105-110
CheckCredential ==
    /\ pc = "credential"
    /\ IF args.openai \/ args.openai_embed
         THEN /\ api_key' = EnvironGet(environ)
              /\ IF ~Truthy(api_key')
                   THEN /\ printed' = Append(printed, "Error: OPENAI_API_KEY required")
                        /\ Exit(1)
                   ELSE /\ pc' = "backend"
                        /\ UNCHANGED <<printed, exit_code>>
         ELSE /\ pc' = "backend"
              /\ UNCHANGED <<api_key, printed, exit_code>>
    /\ UNCHANGED <<minputs, md_files, extractor, embedder, indexer, mloop>>
    /\ UNCHANGED <<evars, fvars>>

\* lines 112-127
SelectBackend ==
    /\ pc = "backend"
    /\ IF args.openai
         THEN /\ extractor' = [class |-> "OpenAIExtractor", api_key |-> api_key, model |-> "gpt-4o"]
              /\ embedder' = [class |-> "OpenAIEmbedder", api_key |-> api_key,
                              model |-> "text-embedding-3-small"]
         ELSE IF args.openai_embed
         THEN /\ extractor' = [class |-> "OllamaExtractor", api_key |-> "ollama", model |-> "llama3.2"]
              /\ embedder' = [class |-> "OpenAIEmbedder", api_key |-> api_key,
                              model |-> "text-embedding-3-small"]
         ELSE /\ extractor' = [class |-> "OllamaExtractor", api_key |-> "ollama", model |-> "llama3.2"]
              /\ embedder' = [class |-> "OllamaEmbedder", api_key |-> "ollama",
                              model |-> args.embedder_model]
    /\ printed' = Append(printed, "Found / Session / Backend")
    /\ pc' = "indexer"
    /\ UNCHANGED <<minputs, md_files, api_key, indexer, mloop, exit_code>>
    /\ UNCHANGED <<evars, fvars>>

\* lines 129-139
MakeIndexer ==
    /\ pc = "indexer"
    /\ indexer' = TRUE
    /\ total_entities' = 0
    /\ total_relationships' = 0
    /\ batch' = <<>>
    /\ pc' = "loop"
    /\ UNCHANGED <<minputs, md_files, api_key, extractor, embedder, i, calls, returns,
                   printed, exit_code>>
    /\ UNCHANGED <<evars, fvars>>

\* lines 141-145: the next path of enumerate(md_files, 1) is read, or skipped
ReadFile ==
    /\ pc = "loop"
    /\ i < Len(md_files)
    /\ i' = i + 1
    /\ IF md_files[i'] \in unreadable
         THEN /\ printed' = Append(printed, "Skipped")
              /\ UNCHANGED batch
         ELSE /\ batch' = Append(batch, ReadText(md_files[i']))
              /\ UNCHANGED printed
    /\ pc' = "flush"
    /\ UNCHANGED <<minputs, md_files, mbackend, total_entities, total_relationships,
                   calls, returns, exit_code>>
    /\ UNCHANGED <<evars, fvars>>

ShouldFlushWhenFull ==
    /\ Len(batch) >= args.batch_size
    /\ batch # <<>>

ShouldFlushUnlessSkipped ==
    /\ md_files[i] \notin unreadable
    /\ (Len(batch) >= args.batch_size \/ i = Len(md_files))
    /\ batch # <<>>

\* lines 147-148
ShouldFlush ==
    /\ (Len(batch) >= args.batch_size \/ i = Len(md_files))
    /\ batch # <<>>

\* lines 147-157: the batch is submitted and index_documents returns stats
IndexBatch ==
    /\ pc = "flush"
    /\ ShouldFlush
    /\ \E stats \in EngineStats :
        /\ calls' = Append(calls, batch)
        /\ returns' = Append(returns, stats)
        /\ total_entities' = total_entities + stats.entities_extracted
        /\ total_relationships' = total_relationships + stats.relationships_extracted
    /\ printed' = Append(printed, "progress")
    /\ batch' = <<>>
    /\ pc' = "loop"
    /\ UNCHANGED <<minputs, md_files, mbackend, i, exit_code>>
    /\ UNCHANGED <<evars, fvars>>

\* line 149: index_documents raises; nothing catches it and the interpreter exits 1
IndexBatchRaises ==
    /\ pc = "flush"
    /\ ShouldFlush
    /\ calls' = Append(calls, batch)
    /\ printed' = Append(printed, "Traceback")
    /\ Exit(1)
    /\ UNCHANGED <<minputs, md_files, mbackend, total_entities, total_relationships,
                   batch, i, returns>>
    /\ UNCHANGED <<evars, fvars>>

\* line 147 false, or line 148 false
NoFlush ==
    /\ pc = "flush"
    /\ ~ShouldFlush
    /\ pc' = "loop"
    /\ UNCHANGED <<minputs, md_files, mbackend, mloop, printed, exit_code>>
    /\ UNCHANGED <<evars, fvars>>

\* lines 159-162, then main returns and the interpreter exits 0
Finish ==
    /\ pc = "loop"
    /\ i >= Len(md_files)
    /\ printed' = Append(printed, "Done")
    /\ Exit(0)
    /\ UNCHANGED <<minputs, md_files, mbackend, mloop>>
    /\ UNCHANGED <<evars, fvars>>


\* ------------------------------------------------------ tool facade (mcp-server.py)
BackendValues == {"<unset>", "ollama", "openai", "OpenAI"}
Tools == {"query_docs", "index_directory"}

\* str.lower() on the values GIBRAM_BACKEND takes here
Lower(v) == IF v = "OpenAI" THEN "openai" ELSE v

\* line 26
USE_OPENAI(backend) == Lower(EnvironGetDefault(backend, "ollama")) = "openai"

\* line 27
OPENAI_API_KEY(key) == EnvironGetDefault(key, "")

\* the entities indexer.query can return: title, score and description of each
Entity(n) == [title |-> n, description |-> IF n = 1 THEN "" ELSE "text"]
QueryResults == {[j \in 1..n |-> Entity(j)] : n \in 0..MaxEntities}


FacadeInit ==
    /\ f_backend \in BackendValues
    /\ f_environ \in KeyValues
    /\ f_tool \in Tools
    /\ f_dir_exists \in BOOLEAN
    /\ f_dir_files \in SUBSET Paths
    /\ (~f_dir_exists \/ f_tool = "query_docs" => f_dir_files = {})
    /\ (f_tool = "query_docs" => f_dir_exists)
    /\ f_unreadable \in SUBSET f_dir_files
    /\ f_md_files = <<>>
    /\ f_extractor = NoObject
    /\ f_embedder = NoObject
    /\ f_indexer = FALSE
    /\ docs = <<>>
    /\ skipped = 0
    /\ f_next = 1
    /\ f_calls = <<>>
    /\ reply = <<>>
    /\ fpc = IF f_tool = "query_docs" THEN "query_indexer" ELSE "check_dir"

\* lines 30-51: the extractor and the embedder _indexer constructs
IndexerExtractor(use_openai, key) ==
    IF use_openai
      THEN [class |-> "OpenAIExtractor", api_key |-> key, model |-> "gpt-4o"]
      ELSE [class |-> "OpenAIExtractor", api_key |-> "ollama", model |-> "llama3.2"]

IndexerEmbedder(use_openai, key) ==
    IF use_openai
      THEN [class |-> "OpenAIEmbedder", api_key |-> key, model |-> "text-embedding-3-small"]
      ELSE [class |-> "OpenAIEmbedder", api_key |-> "ollama", model |-> "nomic-embed-text"]

\* lines 30-51
_indexer ==
    /\ f_extractor' = IndexerExtractor(USE_OPENAI(f_backend), OPENAI_API_KEY(f_environ))
    /\ f_embedder' = IndexerEmbedder(USE_OPENAI(f_backend), OPENAI_API_KEY(f_environ))
    /\ f_indexer' = TRUE

\* line 67
QueryMakeIndexer ==
    /\ fpc = "query_indexer"
    /\ _indexer
    /\ fpc' = "query"
    /\ UNCHANGED <<finputs, f_md_files, docs, skipped, f_next, f_calls, reply>>
    /\ UNCHANGED <<evars, mvars>>

\* lines 73-79: the header lines, then per entity its numbered line and, when the
\* description is non-empty, its description line
RECURSIVE EntityLines(_, _)
EntityLines(entities, n) ==
    IF n > Len(entities) THEN <<>>
    ELSE <<[line |-> "entity", number |-> n, title |-> entities[n].title]>>
         \o (IF entities[n].description # ""
               THEN <<[line |-> "description", number |-> n, title |-> entities[n].title]>>
               ELSE <<>>)
         \o EntityLines(entities, n + 1)

HeaderLine(name) == [line |-> name, number |-> 0, title |-> 0]

\* lines 68-79: indexer.query returns
QueryReturns ==
    /\ fpc = "query"
    /\ \E entities \in QueryResults :
        /\ f_calls' = Append(f_calls, [op |-> "query", size |-> 0])
        /\ reply' = IF entities = <<>>
                      THEN <<HeaderLine("No results found")>>
                      ELSE <<HeaderLine("Query"), HeaderLine("Session"), HeaderLine("")>>
                           \o EntityLines(entities, 1)
    /\ fpc' = "returned"
    /\ UNCHANGED <<finputs, f_md_files, fobjects, docs, skipped, f_next>>
    /\ UNCHANGED <<evars, mvars>>

\* line 68: indexer.query raises, and the tool call raises with it
QueryRaises ==
    /\ fpc = "query"
    /\ f_calls' = Append(f_calls, [op |-> "query", size |-> 0])
    /\ fpc' = "raised"
    /\ UNCHANGED <<finputs, f_md_files, fobjects, docs, skipped, f_next, reply>>
    /\ UNCHANGED <<evars, mvars>>

\* lines 95-97
FacadeCheckDir ==
    /\ fpc = "check_dir"
    /\ IF ~f_dir_exists
         THEN /\ reply' = <<HeaderLine("Error: Directory not found")>>
              /\ fpc' = "returned"
         ELSE /\ fpc' = "list_files"
              /\ UNCHANGED reply
    /\ UNCHANGED <<finputs, f_md_files, fobjects, docs, skipped, f_next, f_calls>>
    /\ UNCHANGED <<evars, mvars>>

\* lines 99-101
FacadeListFiles ==
    /\ fpc = "list_files"
    /\ f_md_files' = Sorted(f_dir_files)
    /\ IF f_md_files' = <<>>
         THEN /\ reply' = <<HeaderLine("No markdown files found")>>
              /\ fpc' = "returned"
         ELSE /\ fpc' = "index_indexer"
              /\ UNCHANGED reply
    /\ UNCHANGED <<finputs, fobjects, docs, skipped, f_next, f_calls>>
    /\ UNCHANGED <<evars, mvars>>

\* lines 103-105
IndexMakeIndexer ==
    /\ fpc = "index_indexer"
    /\ _indexer
    /\ docs' = <<>>
    /\ skipped' = 0
    /\ fpc' = "read"
    /\ UNCHANGED <<finputs, f_md_files, f_next, f_calls, reply>>
    /\ UNCHANGED <<evars, mvars>>

\* lines 107-111: one pass of the read loop
FacadeReadFile ==
    /\ fpc = "read"
    /\ f_next <= Len(f_md_files)
    /\ IF f_md_files[f_next] \in f_unreadable
         THEN /\ skipped' = skipped + 1
              /\ UNCHANGED docs
         ELSE /\ docs' = Append(docs, ReadText(f_md_files[f_next]))
              /\ UNCHANGED skipped
    /\ f_next' = f_next + 1
    /\ UNCHANGED <<finputs, f_md_files, fobjects, f_calls, reply, fpc>>
    /\ UNCHANGED <<evars, mvars>>

\* lines 113-124: index_documents returns stats
IndexReturns ==
    /\ fpc = "read"
    /\ f_next > Len(f_md_files)
    /\ \E stats \in EngineStats :
        /\ f_calls' = Append(f_calls, [op |-> "index_documents", size |-> Len(docs)])
        /\ reply' = <<HeaderLine("Indexed"), HeaderLine("Session"),
                      [line |-> "Entities", number |-> stats.entities_extracted, title |-> 0],
                      [line |-> "Relationships", number |-> stats.relationships_extracted,
                       title |-> 0]>>
                    \o (IF skipped # 0
                          THEN <<[line |-> "Skipped", number |-> skipped, title |-> 0]>>
                          ELSE <<>>)
    /\ fpc' = "returned"
    /\ UNCHANGED <<finputs, f_md_files, fobjects, docs, skipped, f_next>>
    /\ UNCHANGED <<evars, mvars>>

\* line 113: index_documents raises, and the tool call raises with it
IndexRaises ==
    /\ fpc = "read"
    /\ f_next > Len(f_md_files)
    /\ f_calls' = Append(f_calls, [op |-> "index_documents", size |-> Len(docs)])
    /\ fpc' = "raised"
    /\ UNCHANGED <<finputs, f_md_files, fobjects, docs, skipped, f_next, reply>>
    /\ UNCHANGED <<evars, mvars>>


\* --------------------------------------------------------------- specifications
\* The entry points that are not running.
EmbedIdle ==
    /\ texts = <<>> /\ model = "nomic-embed-text" /\ truncated = <<>> /\ requests = <<>>
    /\ outcomes = <<>> /\ result = <<>> /\ k = 0 /\ raised = NoError /\ epc = "idle"

MainIdle ==
    /\ dir_exists = FALSE /\ dir_files = {} /\ unreadable = {}
    /\ args = [openai |-> FALSE, openai_embed |-> FALSE, batch_size |-> 1,
               embedder_model |-> "nomic-embed-text"]
    /\ environ = "<unset>" /\ md_files = <<>> /\ api_key = None
    /\ extractor = NoObject /\ embedder = NoObject /\ indexer = FALSE
    /\ total_entities = 0 /\ total_relationships = 0 /\ batch = <<>> /\ i = 0
    /\ calls = <<>> /\ returns = <<>> /\ printed = <<>> /\ exit_code = -1 /\ pc = "idle"

FacadeIdle ==
    /\ f_backend = "<unset>" /\ f_environ = "<unset>" /\ f_tool = "query_docs"
    /\ f_dir_exists = FALSE /\ f_dir_files = {} /\ f_unreadable = {} /\ f_md_files = <<>>
    /\ f_extractor = NoObject /\ f_embedder = NoObject /\ f_indexer = FALSE
    /\ docs = <<>> /\ skipped = 0 /\ f_next = 1 /\ f_calls = <<>> /\ reply = <<>>
    /\ fpc = "idle"

vars == <<evars, mvars, fvars>>

InitEmbed == EmbedInit /\ MainIdle /\ FacadeIdle

NextEmbed ==
    \/ EmbedTruncate
    \/ BatchSucceeds
    \/ BatchFails
    \/ SingleSucceeds
    \/ SingleFails
    \/ FallbackReturn

SpecEmbed == InitEmbed /\ [][NextEmbed]_vars

Init == MainInit /\ EmbedIdle /\ FacadeIdle

Next ==
    \/ CheckDir
    \/ ListFiles
    \/ CheckCredential
    \/ SelectBackend
    \/ MakeIndexer
    \/ ReadFile
    \/ IndexBatch
    \/ IndexBatchRaises
    \/ NoFlush
    \/ Finish

Spec == Init /\ [][Next]_vars

InitFacade == FacadeInit /\ EmbedIdle /\ MainIdle

NextFacade ==
    \/ QueryMakeIndexer
    \/ QueryReturns
    \/ QueryRaises
    \/ FacadeCheckDir
    \/ FacadeListFiles
    \/ IndexMakeIndexer
    \/ FacadeReadFile
    \/ IndexReturns
    \/ IndexRaises

SpecFacade == InitFacade /\ [][NextFacade]_vars


\* ----------------------------------------------------------------------- claims
\* What the cap allows of a text of length n.
Capped(n) == IF n > MAX_CHARS THEN MAX_CHARS ELSE n

\* d is what the provider must receive for input text t.
Delivered(t, d) == d.src = t.src /\ d.len = Capped(t.len)

\* C1: whenever embed returns, it returns one vector per input text, and the n-th
\* vector is the one produced for the n-th text: the provider's embedding of that
\* text as delivered, or the placeholder when its own single request failed.
EmbedKeepsLengthAndOrder ==
    epc = "returned" =>
        /\ Len(result) = Len(texts)
        /\ \A n \in 1..Len(texts) :
            IF result[n].zero
              THEN outcomes[1] # "ok" /\ outcomes[n + 1] # "ok"
              ELSE Delivered(texts[n], result[n].text)

EmbedMixedFallbackReturned ==
    /\ epc = "returned"
    /\ Len(texts) = 2
    /\ texts[1].src # texts[2].src
    /\ outcomes[1] # "ok"
    /\ ~result[1].zero
    /\ result[2].zero

\* C2: after a failed batch request for N > 1 texts, embed makes exactly N single
\* requests, one per text in input order, puts a zero vector where a single request
\* failed and the provider's vector where it succeeded, and never raises.
EmbedFallbackNeverRaises ==
    Len(texts) > 1 =>
        /\ epc # "raised"
        /\ Len(requests) <= 1 + Len(texts)
        /\ (epc = "returned" /\ outcomes[1] # "ok" =>
              /\ Len(requests) = 1 + Len(texts)
              /\ \A n \in 1..Len(texts) :
                  /\ requests[n + 1] = <<truncated[n]>>
                  /\ result[n] = IF outcomes[n + 1] = "ok"
                                   THEN ProviderEmbedding(model, truncated[n])
                                   ELSE ZeroVector)

EmbedAllSinglesFailed ==
    /\ epc = "returned"
    /\ Len(texts) = MaxTexts
    /\ \A n \in 1..Len(outcomes) : outcomes[n] # "ok"
    /\ \A n \in 1..Len(result) : result[n].zero

\* C3: when the batch request for exactly one text fails, embed raises that very
\* error, having made no other request and substituted no vector.
EmbedSingleBatchFailurePropagates ==
    (Len(texts) = 1 /\ Len(outcomes) >= 1 /\ outcomes[1] # "ok") =>
        /\ epc = "raised"
        /\ raised = outcomes[1]
        /\ Len(requests) = 1
        /\ result = <<>>

EmbedRaisedConnectionError ==
    /\ epc = "raised"
    /\ Len(texts) = 1
    /\ raised = "connection"

\* C4: every text in every provider request, batch or single, is the input text cut
\* to MAX_CHARS characters when longer and the input text itself otherwise.
EmbedDeliversTruncated ==
    \A r \in 1..Len(requests) :
        IF r = 1
          THEN /\ Len(requests[1]) = Len(texts)
               /\ \A n \in 1..Len(texts) : Delivered(texts[n], requests[1][n])
          ELSE /\ Len(requests[r]) = 1
               /\ Delivered(texts[r - 1], requests[r][1])

EmbedLongAndEmptyDelivered ==
    /\ epc = "returned"
    /\ Len(requests) = 3
    /\ texts[1].len = MAX_CHARS + 1
    /\ requests[2][1].len = MAX_CHARS
    /\ texts[2].len = 0
    /\ requests[3][1].len = 0

\* C7: every vector embed returns, placeholders included, has the length of the
\* vectors the configured model returns.
EmbedVectorsHaveModelDim ==
    epc = "returned" =>
        /\ Len(result) = Len(texts)
        /\ \A n \in 1..Len(result) : result[n].dim = ModelDim(model)

\* The run of main reached line 162.
Completed == pc = "exit" /\ printed # <<>> /\ printed[Len(printed)] = "Done"

Readable == dir_files \ unreadable

CeilDiv(a, b) == (a + b - 1) \div b

RECURSIVE SumOf(_, _)
SumOf(s, field) == IF s = <<>> THEN 0 ELSE s[1][field] + SumOf(Tail(s), field)

RECURSIVE Flatten(_)
Flatten(ss) == IF ss = <<>> THEN <<>> ELSE ss[1] \o Flatten(Tail(ss))

\* C5: a completed run with batch size B >= 1 over K readable documents has called
\* the engine exactly ceil(K/B) times, and the totals it reports are the sums of the
\* counts those calls returned.
PipelineCallsAndTotals ==
    Completed =>
        /\ (args.batch_size >= 1 =>
              Len(calls) = CeilDiv(Cardinality(Readable), args.batch_size))
        /\ Len(returns) = Len(calls)
        /\ total_entities = SumOf(returns, "entities_extracted")
        /\ total_relationships = SumOf(returns, "relationships_extracted")

PipelineLastFileUnreadable ==
    /\ Completed
    /\ dir_files = Paths
    /\ unreadable = {MaxFiles}
    /\ args.batch_size = 2
    /\ Len(calls) = CeilDiv(MaxFiles - 1, 2)
    /\ total_entities > total_relationships

\* C9: no batch submitted to the engine holds more documents than --batch-size.
BatchWithinConfiguredSize ==
    \A n \in 1..Len(calls) : Len(calls[n]) <= args.batch_size

\* C10: in a completed run the batches, laid end to end, are the readable documents
\* once each in ascending path order, and no batch is empty.
PipelineSubmitsReadableOnceInOrder ==
    Completed =>
        /\ \A n \in 1..Len(calls) : calls[n] # <<>>
        /\ LET all == Flatten(calls) IN
            /\ Len(all) = Cardinality(Readable)
            /\ \A n \in 1..Len(all) : all[n].from \in Readable
            /\ \A m, n \in 1..Len(all) : m < n => all[m].from < all[n].from

PipelineSkipsTrailingUnreadable ==
    /\ Completed
    /\ Cardinality(dir_files) >= 3
    /\ Cardinality(Readable) >= 2
    /\ md_files[Len(md_files)] \in unreadable
    /\ md_files[1] \in unreadable
    /\ args.batch_size > Cardinality(Readable)
    /\ Len(calls) = 1

\* --openai or --openai-embed is given and OPENAI_API_KEY is unset or empty.
CredentialMissing ==
    (args.openai \/ args.openai_embed) /\ environ \in {"<unset>", ""}

NoFilesReported == printed = <<"No markdown files found">>

\* C8 as stated: exit code 1 whenever the directory or a required credential is
\* missing, exit code 0 with the no-files message when no file matches, exit code 0
\* on completion, and no engine call in the first two cases.
ExitCodesAsStated ==
    pc = "exit" =>
        /\ (~dir_exists \/ CredentialMissing => exit_code = 1 /\ calls = <<>>)
        /\ (dir_exists /\ dir_files = {} =>
              exit_code = 0 /\ NoFilesReported /\ calls = <<>>)
        /\ (Completed => exit_code = 0)

\* C8 amended: a missing credential gives exit code 1 only when some file matches;
\* an existing directory with no matching file gives exit code 0 and the no-files
\* message whatever the credential. A failed precondition stops the run before the
\* backend is selected.
ExitCodesByCheckOrder ==
    /\ (~dir_exists \/ (dir_files # {} /\ CredentialMissing) =>
          /\ pc \in {"check_dir", "list_files", "credential", "exit"}
          /\ calls = <<>>
          /\ ~indexer /\ extractor = NoObject /\ embedder = NoObject
          /\ (pc = "exit" => exit_code = 1))
    /\ (dir_exists /\ dir_files = {} =>
          /\ pc \in {"check_dir", "list_files", "exit"}
          /\ calls = <<>>
          /\ ~indexer /\ extractor = NoObject /\ embedder = NoObject
          /\ (pc = "exit" => exit_code = 0 /\ NoFilesReported))
    /\ (Completed => exit_code = 0)

ExitedNoFilesWithoutCredential ==
    /\ pc = "exit"
    /\ exit_code = 0
    /\ dir_files = {}
    /\ CredentialMissing
    /\ NoFilesReported

\* C6, for the tool facade: with the OpenAI backend selected and no credential in
\* the environment, no extractor, embedder or indexer is constructed and the engine
\* is not called.
FacadeFailsFastWithoutCredential ==
    (USE_OPENAI(f_backend) /\ f_environ \in {"<unset>", ""}) =>
        /\ f_extractor = NoObject
        /\ f_embedder = NoObject
        /\ ~f_indexer
        /\ f_calls = <<>>

=============================================================================
